---- MODULE Spec2Model ----
(***************************************************************************)
(* Model of the fetch / cache / resolve layer of football-stats            *)
(* (src/fbref_collector.py): RateLimitedRequester and FBrefTeamMapper.     *)
(* Time is in whole seconds.  Strings are sequences of one-character       *)
(* strings so that lower-casing, concatenation and hashing are computed.   *)
(***************************************************************************)
EXTENDS Integers, Sequences, FiniteSets, TLC

(* ------------------------------ bounds --------------------------------- *)
\* top-level calls made by the client in one behaviour
MaxOps == 2
\* idle periods between calls in one behaviour
MaxTicks == 2
\* the server rate-limits once in a behaviour: it then answers 429 to this
\* many requests in a row
Max429 == 6

(* ------------------- RateLimitedRequester parameters ------------------- *)
min_delay == 5
max_delay == 10
cache_ttl == 86400
\* time.sleep(60) after a 429 answer
Cooldown == 60
\* time.time() when the process starts: later than any age or delay the
\* requester compares against
StartTime == cache_ttl + Cooldown

(* ------------------------- recent match records ----------------------- *)
\* the longest upstream list of matches and the largest lookback
MaxMatches == 3
MaxLookback == 2

Digits == <<"0", "1", "2", "3", "4", "5", "6", "7", "8", "9">>
Digit(c) == (CHOOSE i \in 1..Len(Digits) : Digits[i] = c) - 1
\* dates as the pages and the API give them: fixed-width digit strings
DateStrings == {<<"0", "9">>, <<"1", "0">>, <<"1", "1">>}
\* pd.to_datetime: the instant a date string stands for
RECURSIVE ToDatetime(_)
ToDatetime(s) ==
    IF s = <<>> THEN 0
    ELSE 10 * ToDatetime(SubSeq(s, 1, Len(s) - 1)) + Digit(s[Len(s)])
\* a < b for Python strings: the first differing character decides, a proper
\* prefix is smaller
StrLess(a, b) ==
    \E k \in 1..(Len(b)) :
        /\ \A j \in 1..(k - 1) : j <= Len(a) /\ a[j] = b[j]
        /\ \/ k > Len(a)
           \/ k <= Len(a) /\ Digit(a[k]) < Digit(b[k])

\* a cell without a value (NaN)
NaN == "NaN"
\* Series.astype(str)
AsStr(cell) == IF cell = NaN THEN "nan" ELSE cell
\* the points of a row whose result is not in the mapping (NaN)
Absent == -1
\* Series.map({'W': 3, 'D': 1, 'L': 0}), one cell
Points_swapped(result) ==
    IF result = "W" THEN 3
    ELSE IF result = "D" THEN 0
    ELSE IF result = "L" THEN 1
    ELSE Absent
Points(result) ==
    IF result = "W" THEN 3
    ELSE IF result = "D" THEN 1
    ELSE IF result = "L" THEN 0
    ELSE Absent

\* a row of the schedule table pd.read_html found
TableRow(date, result) == [Date |-> date, Result |-> result]
TableRows ==
    {TableRow(<<"1", "1">>, "W"), TableRow(<<"1", "0">>, "D"),
     TableRow(<<"1", "0">>, "L"), TableRow(<<"0", "9">>, NaN),
     TableRow(<<"0", "9">>, "W")}
\* the table: whether it has a Result column, and its rows
Schedule(has_result, rows) == [has_result |-> has_result, rows |-> rows]
NoSchedule == Schedule(FALSE, <<>>)
\* an element of the "matches" list of the API's answer
ApiMatch(utcDate, id) == [utcDate |-> utcDate, id |-> id]
ApiMatches ==
    {ApiMatch(<<"1", "1">>, 1), ApiMatch(<<"1", "0">>, 2),
     ApiMatch(<<"1", "0">>, 3), ApiMatch(<<"0", "9">>, 4)}

\* all sequences over S of length at most n
SeqsUpTo(S, n) == UNION {[1..k -> S] : k \in 0..n}

\* the orders a sort may leave n rows in: the permutations of 1..n that put
\* the keys in descending order (rows with equal keys in any order)
DescendingOrders(key, n) ==
    {f \in [1..n -> 1..n] :
        /\ \A i, j \in 1..n : i # j => f[i] # f[j]
        /\ \A i, j \in 1..n : i < j => key[f[i]] >= key[f[j]]}
\* list.sort(key=..., reverse=True) of strings: the stable order, rows with
\* equal keys stay in their order
StableDescendingOrder(keys) ==
    CHOOSE f \in [1..Len(keys) -> 1..Len(keys)] :
        /\ \A i, j \in 1..Len(keys) : i # j => f[i] # f[j]
        /\ \A i, j \in 1..Len(keys) :
              i < j => \/ StrLess(keys[f[j]], keys[f[i]])
                       \/ keys[f[j]] = keys[f[i]] /\ f[i] < f[j]
\* rows[:n] / DataFrame.head(n) for n >= 0
FirstRows_plusone(rows, n) ==
    SubSeq(rows, 1, IF n + 1 < Len(rows) THEN n + 1 ELSE Len(rows))
FirstRows(rows, n) == SubSeq(rows, 1, IF n < Len(rows) THEN n ELSE Len(rows))

\* a record of the DataFrame get_team_matches returns; points is NoColumn
\* when the table has no Result column
NoColumn == -2
MatchRecord(row, has_result) ==
    [date |-> ToDatetime(row.Date),
     result |-> IF has_result THEN AsStr(row.Result) ELSE "",
     points |-> IF has_result THEN Points(AsStr(row.Result)) ELSE NoColumn]

\* get_team_matches from the table on: to_datetime, sort_values('date',
\* ascending=False) leaving the rows in order f, head(lookback), points
get_team_matches_table(table, n, f) ==
    LET sorted == [i \in 1..Len(table.rows) |-> table.rows[f[i]]]
        head == FirstRows(sorted, n)
    IN  [i \in 1..Len(head) |-> MatchRecord(head[i], table.has_result)]
\* the orders sort_values may produce for the table
TableOrders(table) ==
    DescendingOrders([i \in 1..Len(table.rows) |-> ToDatetime(table.rows[i].Date)],
                     Len(table.rows))

\* fetch_last_matches from the answer on: data.sort(key=utcDate,
\* reverse=True); return data[:n]
fetch_last_matches_data(data, n) ==
    LET f == StableDescendingOrder([i \in 1..Len(data) |-> data[i].utcDate])
        sorted == [i \in 1..Len(data) |-> data[f[i]]]
    IN  FirstRows(sorted, n)

(* ------------------------------ strings -------------------------------- *)
Alphabet == <<"r", "R", "m", "s", ":", "9", "?", "/", "1", "2", "3">>
Code(c) == CHOOSE i \in 1..Len(Alphabet) : Alphabet[i] = c

\* str.lower(), one character
LowerChar(c) == IF c = "R" THEN "r" ELSE c
\* str.lower()
Lower(s) == [i \in 1..Len(s) |-> LowerChar(s[i])]

\* `needle in hay` for strings
Contains(needle, hay) ==
    \E i \in 0..(Len(hay) - Len(needle)) :
        \A j \in 1..Len(needle) : hay[i + j] = needle[j]

TeamNames == {<<"r">>, <<"R">>}
Leagues == {<<"9">>}
\* the teams of the fixtures files and the CSV files of the batch programs
BatchTeams == {<<"r">>, <<"m">>}
\* the squad ids of the pages
SquadIds == {1, 2, 3}

\* f"{FBREF_BASE_URL}search/search.fcgi?search={team_name}"
SearchUrl(team_name) == <<"?">> \o team_name
\* f"{FBREF_BASE_URL}comps/{league_id}/clubs/"
LeagueUrl(league_id) == <<"/">> \o league_id
\* team_info['url'].replace('/squads/', '/matchlogs/all_comps/schedule/'),
\* of the url of the squad with this id
MatchesUrl(id) == <<"/", "m", "/", Digits[id + 1]>>
URLs ==
    {SearchUrl(t) : t \in TeamNames \cup BatchTeams}
    \cup {LeagueUrl(l) : l \in Leagues}
    \cup {MatchesUrl(id) : id \in SquadIds}
\* the URLs the client calls get with
GetURLs == {SearchUrl(<<"r">>), LeagueUrl(<<"9">>)}

(* ------------------------------- pages --------------------------------- *)
\* An <a> element: its text and the squad id its href carries (0: the href
\* does not match /squads/([a-f0-9]+)/).
Anchor(text, id) == [text |-> text, id |-> id]
\* A response body: has_table/clubs are table#clubs and its anchors, teams
\* are the /squads/ anchors of the "Teams" search sections,
\* has_schedule/schedule the first table with a Date and a Comp column.
Page(has_table, clubs, teams) ==
    [has_table |-> has_table, clubs |-> clubs, teams |-> teams,
     has_schedule |-> FALSE, schedule |-> NoSchedule]
EmptyPage == Page(FALSE, <<>>, <<>>)
\* the first anchor of the roster is a link that is not a squad link
RosterPage ==
    Page(TRUE, <<Anchor(<<"R">>, 0), Anchor(<<"R", "m">>, 1),
                 Anchor(<<"R", "s">>, 2)>>, <<>>)
OtherRosterPage == Page(TRUE, <<Anchor(<<"m">>, 3)>>, <<>>)
ResultsPage ==
    Page(FALSE, <<>>, <<Anchor(<<"R">>, 0), Anchor(<<"R", "s">>, 2),
                        Anchor(<<"R", "m">>, 1)>>)
OtherResultsPage == Page(FALSE, <<>>, <<Anchor(<<"m">>, 3)>>)
\* a match log: three matches, the oldest first
SchedulePage ==
    [has_table |-> FALSE, clubs |-> <<>>, teams |-> <<>>, has_schedule |-> TRUE,
     schedule |-> Schedule(TRUE, <<TableRow(<<"0", "9">>, NaN),
                                   TableRow(<<"1", "0">>, "D"),
                                   TableRow(<<"1", "1">>, "W")>>)]
Pages == {EmptyPage, RosterPage, OtherRosterPage, ResultsPage, OtherResultsPage,
          SchedulePage}
\* the bodies the server may answer the url of a match log with
MatchPages == {EmptyPage, SchedulePage}
\* the bodies the server may answer a URL with (the search results depend on
\* the spelling of the name searched for)
PagesFor(url) ==
    IF Head(url) = "?"
    THEN IF url = SearchUrl(<<"m">>) THEN {EmptyPage, OtherResultsPage}
         ELSE IF url = SearchUrl(<<"R">>)
         THEN {EmptyPage, ResultsPage, OtherResultsPage}
         ELSE {EmptyPage, ResultsPage}
    ELSE IF Len(url) > 2 THEN MatchPages
    ELSE {EmptyPage, RosterPage, OtherRosterPage}

(* --------------------------- response cache ---------------------------- *)
\* hashlib.md5(url.encode()).hexdigest(): a digest of the URL's characters.
RECURSIVE Digest(_)
Digest(s) == IF s = <<>> THEN 7 ELSE (31 * Digest(Tail(s)) + Code(Head(s))) % 1009

CachePath_collide(url) == Digest(url) % 2
CachePath(url) == Digest(url)
Paths == {CachePath(u) : u \in URLs}

NoFile == [exists |-> FALSE, body |-> EmptyPage, mtime |-> 0]
CacheFile(body, t) == [exists |-> TRUE, body |-> body, mtime |-> t]

\* os.path.exists(cache_path) and time.time() - getmtime(cache_path) < cache_ttl
CacheFresh_inclusive(f, t) == f.exists /\ (t - f.mtime <= cache_ttl)
CacheFresh_never(f, t) == FALSE
CacheFresh(f, t) == f.exists /\ (t - f.mtime < cache_ttl)

\* random.uniform(min_delay, max_delay): its extremes
Delays == {min_delay, max_delay}
\* sleep_time = delay - elapsed if elapsed < delay
SleepTime_none(elapsed, delay) == 0
SleepTime(elapsed, delay) == IF elapsed < delay THEN delay - elapsed ELSE 0

\* Answers of session.get: 0 is a transport failure (an exception, no response)
Statuses == {0, 200, 304, 404, 429}
\* response.raise_for_status() raises for 400 <= status < 600
RaisesForStatus(status) == status >= 400 /\ status < 600


(* One pass through the body of RateLimitedRequester.get.  The result says
   how the pass ended (kind), what it returned (body), the clock and the
   requester's state afterwards, whether a request was sent (nreq), when
   (sent) and how long the pass slept for rate limiting (slept). *)
Result(kind, body, status, t, lrt, fs, nreq, sent, slept) ==
    [kind |-> kind, body |-> body, status |-> status, now |-> t, lrt |-> lrt,
     files |-> fs, nreq |-> nreq, sent |-> sent, slept |-> slept]

\* the cache branch: return f.read()
OnCacheHit_touch(f, t, lrt, fs) == Result("hit", f.body, 0, t, t, fs, 0, 0, 0)
OnCacheHit(f, t, lrt, fs) == Result("hit", f.body, 0, t, lrt, fs, 0, 0, 0)

\* session.get at time t and what follows it
OnResponse_nowrite(url, status, body, t, lrt, fs, slept) ==
    IF status = 0
    THEN Result("transport_error", EmptyPage, 0, t, lrt, fs, 1, t, slept)
    ELSE IF status = 429
    THEN Result("retry", EmptyPage, status, t + Cooldown, t, fs, 1, t, slept)
    ELSE IF RaisesForStatus(status)
    THEN Result("http_error", EmptyPage, status, t, t, fs, 1, t, slept)
    ELSE Result("ok", body, status, t, t, fs, 1, t, slept)
OnResponse_nocooldown(url, status, body, t, lrt, fs, slept) ==
    IF status = 0
    THEN Result("transport_error", EmptyPage, 0, t, lrt, fs, 1, t, slept)
    ELSE IF status = 429
    THEN Result("retry", EmptyPage, status, t, t, fs, 1, t, slept)
    ELSE IF RaisesForStatus(status)
    THEN Result("http_error", EmptyPage, status, t, t, fs, 1, t, slept)
    ELSE Result("ok", body, status, t, t,
                [fs EXCEPT ![CachePath(url)] = CacheFile(body, t)], 1, t, slept)
OnResponse_errorskips(url, status, body, t, lrt, fs, slept) ==
    IF status = 0
    THEN Result("transport_error", EmptyPage, 0, t, lrt, fs, 1, t, slept)
    ELSE IF status = 429
    THEN Result("retry", EmptyPage, status, t + Cooldown, t, fs, 1, t, slept)
    ELSE IF RaisesForStatus(status)
    THEN Result("http_error", EmptyPage, status, t, lrt, fs, 1, t, slept)
    ELSE Result("ok", body, status, t, t,
                [fs EXCEPT ![CachePath(url)] = CacheFile(body, t)], 1, t, slept)
OnResponse(url, status, body, t, lrt, fs, slept) ==
    IF status = 0
    THEN Result("transport_error", EmptyPage, 0, t, lrt, fs, 1, t, slept)
    ELSE IF status = 429
    THEN Result("retry", EmptyPage, status, t + Cooldown, t, fs, 1, t, slept)
    ELSE IF RaisesForStatus(status)
    THEN Result("http_error", EmptyPage, status, t, t, fs, 1, t, slept)
    ELSE Result("ok", body, status, t, t,
                [fs EXCEPT ![CachePath(url)] = CacheFile(body, t)], 1, t, slept)

GetOnce_cachefirst(url, use_cache, t, lrt, fs, delay, status, body) ==
    LET f == fs[CachePath(url)]
    IN  IF CacheFresh(f, t)
        THEN OnCacheHit(f, t, lrt, fs)
        ELSE LET slept == SleepTime(t - lrt, delay)
             IN  OnResponse(url, status, body, t + slept, lrt, fs, slept)
GetOnce(url, use_cache, t, lrt, fs, delay, status, body) ==
    LET f == fs[CachePath(url)]
    IN  IF use_cache /\ CacheFresh(f, t)
        THEN OnCacheHit(f, t, lrt, fs)
        ELSE LET slept == SleepTime(t - lrt, delay)
             IN  OnResponse(url, status, body, t + slept, lrt, fs, slept)

(* --------------------------- FBrefTeamMapper --------------------------- *)
\* team_info = {'id': ..., 'name': ..., 'url': ...}; the url is a function of
\* the id (urljoin of the href the id was taken from)
TeamInfo(a) == [id |-> a.id, name |-> a.text]
NoTeam == [id |-> 0, name |-> <<>>]
EmptyMapping == [k \in {} |-> NoTeam]
Put(m, k, v) == [x \in DOMAIN m \cup {k} |-> IF x = k THEN v ELSE m[x]]

\* cache_key = team_name.lower()
SearchKey_exact(team_name) == team_name
SearchKey(team_name) == Lower(team_name)
\* cache_key = f"{team_name.lower()}:{league_id}"
LeagueKey(team_name, league_id) == Lower(team_name) \o <<":">> \o league_id

\* _save_mapping_cache: json.dump of the whole mapping; an exception is
\* logged and swallowed, leaving the file as it was (open failed) or
\* truncated (the dump failed)
SaveOutcomes == {"ok", "unchanged", "truncated"}
SaveMappingCache_skip(mc, disk, outcome) == disk
SaveMappingCache(mc, disk, outcome) ==
    IF outcome = "ok" THEN mc
    ELSE IF outcome = "unchanged" THEN disk
    ELSE EmptyMapping

\* what a resolver function does next: return to its caller, or call
\* requester.get(url) and go on at `stage` with the body
Return(kind, val, mc, disk, saved) ==
    [next |-> "return", kind |-> kind, val |-> val, url |-> <<>>,
     stage |-> "none", cache |-> mc, disk |-> disk, saved |-> saved]
Fetch(url, stage, mc, disk) ==
    [next |-> "fetch", kind |-> "running", val |-> NoTeam, url |-> url,
     stage |-> stage, cache |-> mc, disk |-> disk, saved |-> "none"]

\* team_results: the anchors of the search sections whose href carries an id
TeamResults(page) == SelectSeq(page.teams, LAMBDA a : a.id # 0)

\* search_team up to the request: the cache check
search_team_begin_nocheck(team_name, mc, disk) ==
    Fetch(SearchUrl(team_name), "search_page", mc, disk)
search_team_begin(team_name, mc, disk) ==
    IF SearchKey(team_name) \in DOMAIN mc
    THEN Return("value", mc[SearchKey(team_name)], mc, disk, "none")
    ELSE Fetch(SearchUrl(team_name), "search_page", mc, disk)

\* search_team from the response on
search_team_parse_negative(team_name, page, mc, disk, outcome) ==
    LET team_results == TeamResults(page)
    IN  IF team_results # <<>>
        THEN LET best_match == TeamInfo(team_results[1])
                 mc2 == Put(mc, SearchKey(team_name), best_match)
             IN  Return("value", best_match, mc2,
                        SaveMappingCache(mc2, disk, outcome), outcome)
        ELSE Return("none", NoTeam, Put(mc, SearchKey(team_name), NoTeam),
                    disk, "none")
search_team_parse_last(team_name, page, mc, disk, outcome) ==
    LET team_results == TeamResults(page)
    IN  IF team_results # <<>>
        THEN LET best_match == TeamInfo(team_results[Len(team_results)])
                 mc2 == Put(mc, SearchKey(team_name), best_match)
             IN  Return("value", best_match, mc2,
                        SaveMappingCache(mc2, disk, outcome), outcome)
        ELSE Return("none", NoTeam, mc, disk, "none")
search_team_parse(team_name, page, mc, disk, outcome) ==
    LET team_results == TeamResults(page)
    IN  IF team_results # <<>>
        THEN LET best_match == TeamInfo(team_results[1])
                 mc2 == Put(mc, SearchKey(team_name), best_match)
             IN  Return("value", best_match, mc2,
                        SaveMappingCache(mc2, disk, outcome), outcome)
        ELSE Return("none", NoTeam, mc, disk, "none")

\* the first anchor of table#clubs whose text contains team_name (lower-cased
\* both) and whose href carries an id; 0 when there is none
FirstMatch_last(clubs, team_name) ==
    LET hits == {i \in 1..Len(clubs) :
                    /\ Contains(Lower(team_name), Lower(clubs[i].text))
                    /\ clubs[i].id # 0}
    IN  IF hits = {} THEN 0 ELSE CHOOSE i \in hits : \A j \in hits : i >= j
FirstMatch(clubs, team_name) ==
    LET hits == {i \in 1..Len(clubs) :
                    /\ Contains(Lower(team_name), Lower(clubs[i].text))
                    /\ clubs[i].id # 0}
    IN  IF hits = {} THEN 0 ELSE CHOOSE i \in hits : \A j \in hits : i <= j

\* find_team_in_league up to the request: the cache check
find_team_in_league_begin(team_name, league_id, mc, disk) ==
    IF LeagueKey(team_name, league_id) \in DOMAIN mc
    THEN Return("value", mc[LeagueKey(team_name, league_id)], mc, disk, "none")
    ELSE Fetch(LeagueUrl(league_id), "league_page", mc, disk)

\* find_team_in_league from the response on
find_team_in_league_parse_both(team_name, league_id, page, mc, disk, outcome) ==
    IF ~page.has_table
    THEN search_team_begin(team_name, mc, disk)
    ELSE LET i == FirstMatch(page.clubs, team_name)
         IN  IF i # 0
             THEN LET team_info == TeamInfo(page.clubs[i])
                      mc2 == Put(Put(mc, LeagueKey(team_name, league_id), team_info),
                                 SearchKey(team_name), team_info)
                  IN  Return("value", team_info, mc2,
                             SaveMappingCache(mc2, disk, outcome), outcome)
             ELSE search_team_begin(team_name, mc, disk)
find_team_in_league_parse(team_name, league_id, page, mc, disk, outcome) ==
    IF ~page.has_table
    THEN search_team_begin(team_name, mc, disk)
    ELSE LET i == FirstMatch(page.clubs, team_name)
         IN  IF i # 0
             THEN LET team_info == TeamInfo(page.clubs[i])
                      mc2 == Put(mc, LeagueKey(team_name, league_id), team_info)
                  IN  Return("value", team_info, mc2,
                             SaveMappingCache(mc2, disk, outcome), outcome)
             ELSE search_team_begin(team_name, mc, disk)

(* ------------------------- FBrefDataCollector -------------------------- *)
\* the answers of the server to the batch programs (it does not rate-limit)
BatchStatuses == {0, 200, 404}
\* time.sleep(random.uniform(1, 3)): its extremes
TeamPauses == {1, 3}

\* Series.unique(): the values in order of first appearance
RECURSIVE Unique(_)
Unique(seq) ==
    IF seq = <<>> THEN <<>>
    ELSE LET rest == Unique(SubSeq(seq, 1, Len(seq) - 1))
             last == seq[Len(seq)]
         IN  IF \E i \in 1..Len(rest) : rest[i] = last THEN rest
             ELSE Append(rest, last)
\* a row of the fixtures file
Fixture(home_team, away_team) == [home_team |-> home_team, away_team |-> away_team]
\* pd.concat([fixtures_df['home_team'], fixtures_df['away_team']]).unique()
FixtureTeams(fixtures) ==
    Unique([i \in 1..Len(fixtures) |-> fixtures[i].home_team]
           \o [i \in 1..Len(fixtures) |-> fixtures[i].away_team])

\* pd.concat(all_stats, ignore_index=True)
RECURSIVE Concat(_)
Concat(frames) == IF frames = <<>> THEN <<>> ELSE Head(frames) \o Concat(Tail(frames))

\* What get_team_stats returns (stats: the rows of the DataFrame, kind: why
\* it is empty if it is) and the state it leaves.
StatsResult(kind, stats, t, lrt, fs, mc, disk, saved) ==
    [kind |-> kind, stats |-> stats, now |-> t, lrt |-> lrt, files |-> fs,
     cache |-> mc, disk |-> disk, saved |-> saved]

\* matches_df['team_name'] = team_info['name'], ['team_id'] = team_info['id']
TeamFrame(df, team_info) ==
    [i \in 1..Len(df) |->
        [team_name |-> team_info.name, team_id |-> team_info.id,
         date |-> df[i].date, result |-> df[i].result, points |-> df[i].points]]

\* get_team_stats from get_team_matches on; r is how requester.get(matches_url)
\* went.  An exception of get leaves get_team_matches and is caught by
\* get_team_stats.  The set of the results the sort allows.
MatchesOf(team_info, n, r, mc, disk, saved) ==
    IF r.kind \notin {"hit", "ok"}
    THEN {StatsResult("failed", <<>>, r.now, r.lrt, r.files, mc, disk, saved)}
    ELSE IF ~r.body.has_schedule
    THEN {StatsResult("no_matches", <<>>, r.now, r.lrt, r.files, mc, disk, saved)}
    ELSE {LET df == get_team_matches_table(r.body.schedule, n, f)
          IN  IF df = <<>>
              THEN StatsResult("no_matches", <<>>, r.now, r.lrt, r.files, mc,
                               disk, saved)
              ELSE StatsResult("populated", TeamFrame(df, team_info), r.now,
                               r.lrt, r.files, mc, disk, saved) :
          f \in TableOrders(r.body.schedule)}

\* get_team_stats(team_name, lookback=n) at time t: search_team, then
\* get_team_matches.  d1, s1, b1 are the delay drawn for the search request
\* and the server's answer to it, outcome how _save_mapping_cache ends, d2,
\* s2, b2 the same for the match log.
get_team_stats(team_name, n, t, lrt, fs, mc, disk, d1, s1, b1, outcome, d2, s2, b2) ==
    LET begin == search_team_begin(team_name, mc, disk)
    IN  IF begin.next = "return"
        THEN MatchesOf(begin.val, n,
                       GetOnce(MatchesUrl(begin.val.id), TRUE, t, lrt, fs, d2, s2, b2),
                       mc, disk, "none")
        ELSE LET r1 == GetOnce(begin.url, TRUE, t, lrt, fs, d1, s1, b1)
             IN  IF r1.kind \notin {"hit", "ok"}
                 THEN {StatsResult("failed", <<>>, r1.now, r1.lrt, r1.files, mc,
                                   disk, "none")}
                 ELSE LET found == search_team_parse(team_name, r1.body, mc,
                                                     disk, outcome)
                      IN  IF found.kind = "none"
                          THEN {StatsResult("not_found", <<>>, r1.now, r1.lrt,
                                            r1.files, mc, disk, "none")}
                          ELSE MatchesOf(found.val, n,
                                   GetOnce(MatchesUrl(found.val.id), TRUE, r1.now,
                                           r1.lrt, r1.files, d2, s2, b2),
                                   found.cache, found.disk, found.saved)

(* ----------------------------- update_stats ---------------------------- *)
\* REQUEST_DELAY: seconds slept after each answered request
REQUEST_DELAY == 6
\* save_mappings() at every tenth row
SaveEvery == 10
\* the matches of a row: range(1, 8)
NSlots == 7

\* a row of the CSV file: its Team and League cells
Row(Team, League) == [Team |-> Team, League |-> League]
LeagueCells == {<<"E">>, <<"S", " ", ",", "x">>, <<"X">>}
\* x.split(',')[0]
RECURSIVE FirstField(_)
FirstField(x) ==
    IF x = <<>> \/ Head(x) = "," THEN <<>> ELSE <<Head(x)>> \o FirstField(Tail(x))
\* str.strip()
RECURSIVE Strip(_)
Strip(x) ==
    IF x = <<>> THEN x
    ELSE IF Head(x) = " " THEN Strip(Tail(x))
    ELSE IF x[Len(x)] = " " THEN Strip(SubSeq(x, 1, Len(x) - 1))
    ELSE x
\* df['League'].fillna('').map(lambda x: x.split(',')[0].strip()).unique()
LeaguesOf(rows) == Unique([i \in 1..Len(rows) |-> Strip(FirstField(rows[i].League))])

\* id_map["leagues"] as loaded: league -> competition code
league_map == [l \in {<<"E">>, <<"S">>} |-> IF l = <<"E">> THEN "PL" ELSE "PD"]
\* league_map.get(league); "" for None
LeagueCode(league) == IF league \in DOMAIN league_map THEN league_map[league] ELSE ""

\* an element of the "teams" list of the API's answer
ApiTeam(name, id) == [name |-> name, id |-> id]
CompetitionAnswers ==
    {<<ApiTeam(<<"r">>, 11)>>, <<ApiTeam(<<"r">>, 11), ApiTeam(<<"m">>, 12)>>}
\* requests.get answered and raise_for_status() did not raise
Answered(status) == status # 0 /\ ~RaisesForStatus(status)

\* for t in teams_data: team_map[team_name] = team_id
RECURSIVE PutTeams(_, _)
PutTeams(tm, teams_data) ==
    IF teams_data = <<>> THEN tm
    ELSE LET t == Head(teams_data)
         IN  PutTeams(IF t.name # <<>> /\ t.id # 0 THEN Put(tm, t.name, t.id) ELSE tm,
                      Tail(teams_data))
\* fetch_competition_teams(comp_code): team_map afterwards
fetch_competition_teams(comp_code, tm, status, teams_data) ==
    IF comp_code = "" THEN tm
    ELSE IF Answered(status) THEN PutTeams(tm, teams_data)
    ELSE tm

\* lookup_team_id(team_name): 0 for None (fetch_team_by_search returns None)
lookup_team_id(team_name, tm) ==
    IF team_name \in DOMAIN tm /\ tm[team_name] # 0 THEN tm[team_name] ELSE 0

\* the "matches" lists the API answers the batch programs with
BatchMatch == [utcDate |-> <<"1", "0">>, id |-> 2, homeTeam |-> <<"r">>]
MatchAnswers == {<<>>, <<BatchMatch>>}
\* fetch_last_matches(team_id, n): [] for no id and for every exception
fetch_last_matches(team_id, n, status, data) ==
    IF team_id = 0 THEN <<>>
    ELSE IF Answered(status) THEN fetch_last_matches_data(data, n)
    ELSE <<>>

\* STATS_FIELDS
STATS_FIELDS ==
    <<"Goals for", "Goals against", "Total shots", "Shots on target",
      "Possession (%)">>
Fields == {STATS_FIELDS[i] : i \in 1..Len(STATS_FIELDS)}
\* stats = {}
NoStats == [f \in {} |-> Absent]
\* {field: pd.NA for field in STATS_FIELDS}: pd.NA is Absent
NAStats == [f \in Fields |-> Absent]
\* the answer of /matches/{id}: score.fullTime and the statistics of the
\* team's side, a missing value being Absent
FullTime == [home |-> 2, away |-> 1]
NoFullTime == [home |-> Absent, away |-> Absent]
MatchData(fullTime, shots, shotsOnGoal, possession) ==
    [fullTime |-> fullTime, shots |-> shots, shotsOnGoal |-> shotsOnGoal,
     possession |-> possession]
MatchDatas ==
    {MatchData(FullTime, 9, 4, 55), MatchData(NoFullTime, Absent, Absent, Absent)}
\* score.get("home", 0) or 0
OrZero(goals) == IF goals = Absent THEN 0 ELSE goals
\* extract_stats(match, team_name): NA for no match, no id and every
\* exception; else the five fields are assigned one by one
extract_stats(match, team_name, status, match_data) ==
    IF match.id = 0 THEN NAStats
    ELSE IF ~Answered(status) THEN NAStats
    ELSE LET is_home == match.homeTeam = team_name
             home_goals == OrZero(match_data.fullTime.home)
             away_goals == OrZero(match_data.fullTime.away)
             s1 == Put(NoStats, "Goals for",
                       IF is_home THEN home_goals ELSE away_goals)
             s2 == Put(s1, "Goals against",
                       IF is_home THEN away_goals ELSE home_goals)
             s3 == Put(s2, "Total shots", match_data.shots)
             s4 == Put(s3, "Shots on target", match_data.shotsOnGoal)
         IN  Put(s4, "Possession (%)", match_data.possession)

\* the statistics of a row: stats[f"Match {i} {field}"] = val for the items
\* of the result of each of the slots 1 .. 7; statuses and datas are the
\* answers to the requests of extract_stats
SlotStats(matches, team_name, statuses, datas, i) ==
    IF i <= Len(matches)
    THEN extract_stats(matches[i], team_name, statuses[i], datas[i])
    ELSE NAStats
RowStats(matches, team_name, statuses, datas) ==
    [c \in UNION {{<<i, f>> : f \in DOMAIN SlotStats(matches, team_name,
                                                     statuses, datas, i)} :
                  i \in 1..NSlots}
        |-> SlotStats(matches, team_name, statuses, datas, c[1])[c[2]]]
\* the row of a team without an id: every field of every slot is pd.NA
NARowStats == [c \in (1..NSlots) \X Fields |-> Absent]
\* {**row.to_dict(), **stats}
OutRow(row, stats) == [Team |-> row.Team, League |-> row.League, stats |-> stats]

(* ---------------------------- football_stats --------------------------- *)
\* mappings['leagues'] as loaded: league -> team -> id
mappings_leagues ==
    [l \in {<<"E">>, <<"X">>} |->
        IF l = <<"E">> THEN [t \in {<<"r">>} |-> 11] ELSE [t \in {<<"m">>} |-> 12]]
\* get_team_id(team, league, mappings); 0 for None
get_team_id(team, league) ==
    IF league \in DOMAIN mappings_leagues /\ team \in DOMAIN mappings_leagues[league]
    THEN mappings_leagues[league][team] ELSE 0
\* an element of fetch_last7's results: (home, away, sh, sa)
Last7Match(home, away, sh, sa) == [home |-> home, away |-> away, sh |-> sh, sa |-> sa]
Last7Answers == {<<>>, <<Last7Match(<<"r">>, <<"m">>, 2, 1)>>}
\* the Series stats_last7 returns
Last7Stats(gf, ga, w, d, l) == [GF |-> gf, GA |-> ga, W |-> w, D |-> d, L |-> l]
NoLast7Stats == Last7Stats(Absent, Absent, Absent, Absent, Absent)
\* the loop of stats_last7 over the matches
RECURSIVE SumLast7(_, _, _)
SumLast7(team, matches, acc) ==
    IF matches = <<>> THEN acc
    ELSE LET m == Head(matches)
             mine == IF team = m.home THEN m.sh ELSE m.sa
             theirs == IF team = m.home THEN m.sa ELSE m.sh
         IN  SumLast7(team, Tail(matches),
                 IF team # m.home /\ team # m.away THEN acc
                 ELSE Last7Stats(acc.GF + mine, acc.GA + theirs,
                                 acc.W + (IF mine > theirs THEN 1 ELSE 0),
                                 acc.D + (IF mine = theirs THEN 1 ELSE 0),
                                 acc.L + (IF mine < theirs THEN 1 ELSE 0)))

(* ------------------------------- state --------------------------------- *)
VARIABLES
    now,                \* time.time()
    last_request_time,  \* RateLimitedRequester.last_request_time
    files,              \* the cache directory: path -> file
    mapping_cache,      \* FBrefTeamMapper.mapping_cache
    mapping_file,       \* the mapping team_mapping.json holds
    frame,              \* the call in progress and the get call it waits in
    ret,                \* the current / last top-level call and its result
    lastGet,            \* the current / last call of requester.get
    prevGet,            \* the call of requester.get before lastGet
    fetched,            \* url -> the body last written to the cache for it
    returned,           \* <<team, league>> -> the identity last returned
    last_save,          \* how the last _save_mapping_cache ended
    nOps, nTicks, n429,
    schedule,           \* the schedule table of the page get_team_matches reads
    api_matches,        \* the "matches" list of the answer fetch_last_matches reads
    lookback,           \* lookback / n: the number of matches asked for
    recent,             \* the records the call returned
    mcall,              \* the call that returned them
    prog,               \* the batch program that runs
    bpc,                \* where it is
    input,              \* the rows of the file it read
    out_rows,           \* all_stats / out_rows / stats: the output so far
    csv,                \* the CSV files on disk
    team_map,           \* update_stats.team_map
    id_file,            \* the teams id_mappings.json holds
    leagues_done,       \* the leagues update_csv has fetched the teams of
    handled,            \* the teams handled so far and how each went
    learned             \* the teams whose id a handled league or team added

matchVars == <<schedule, api_matches, lookback, recent, mcall>>
batchVars == <<prog, bpc, input, out_rows, csv, team_map, id_file,
               leagues_done, handled, learned>>

vars == <<now, last_request_time, files, mapping_cache, mapping_file, frame,
          ret, lastGet, prevGet, fetched, returned, last_save, nOps, nTicks, n429,
          matchVars, batchVars>>

IdleFrame ==
    [pc |-> "idle", op |-> "none", stage |-> "none", team_name |-> <<>>,
     league_id |-> <<>>, url |-> <<>>, use_cache |-> TRUE, attempts |-> 0]
GetFrame(op, stage, team_name, league_id, url, use_cache) ==
    [pc |-> "get", op |-> op, stage |-> stage, team_name |-> team_name,
     league_id |-> league_id, url |-> url, use_cache |-> use_cache,
     attempts |-> 0]

NoGet ==
    [url |-> <<>>, use_cache |-> TRUE, entry |-> NoFile, fresh |-> FALSE,
     outcome |-> "none", nreq |-> 0, body |-> EmptyPage, status |-> 0, sent |-> 0, slept |-> 0]
\* what is kept of a get call once the next one starts
Summary(g) ==
    [url |-> g.url, use_cache |-> g.use_cache, outcome |-> g.outcome,
     nreq |-> g.nreq]
\* the record of a get call that starts at time t with cache directory fs
StartGet(url, use_cache, fs, t) ==
    [url |-> url, use_cache |-> use_cache, entry |-> fs[CachePath(url)],
     fresh |-> fs[CachePath(url)].exists /\ t - fs[CachePath(url)].mtime < cache_ttl,
     outcome |-> "running", nreq |-> 0, body |-> EmptyPage, status |-> 0,
     sent |-> 0, slept |-> 0]

NoRet ==
    [op |-> "none", team_name |-> <<>>, league_id |-> <<>>, kind |-> "none",
     val |-> NoTeam, fetches |-> 0, nreq |-> 0, prior |-> NoTeam,
     had_scoped |-> FALSE, had_bare |-> FALSE, bare |-> NoTeam,
     saved |-> "none"]
\* the record of a top-level call that starts with mapping cache mc
StartRet(op, team_name, league_id, mc) ==
    [op |-> op, team_name |-> team_name, league_id |-> league_id,
     kind |-> "running", val |-> NoTeam, fetches |-> 0, nreq |-> 0,
     prior |-> IF <<team_name, league_id>> \in DOMAIN returned
               THEN returned[<<team_name, league_id>>] ELSE NoTeam,
     had_scoped |-> LeagueKey(team_name, league_id) \in DOMAIN mc,
     had_bare |-> SearchKey(team_name) \in DOMAIN mc,
     bare |-> IF SearchKey(team_name) \in DOMAIN mc
              THEN mc[SearchKey(team_name)] ELSE NoTeam,
     saved |-> "none"]

\* no call for match records has been made
NoMatchCall ==
    /\ schedule = NoSchedule
    /\ api_matches = <<>>
    /\ lookback = 0
    /\ recent = <<>>
    /\ mcall = "none"

\* a CSV file: absent, or its rows
NoCsv == [exists |-> FALSE, rows |-> <<>>]
CsvFile(rows) == [exists |-> TRUE, rows |-> rows]
\* name -> id
EmptyIds == [k \in {} |-> 0]
\* no batch program runs
NoBatch ==
    /\ prog = "none"
    /\ bpc = "none"
    /\ input = <<>>
    /\ out_rows = <<>>
    /\ csv = [orig |-> NoCsv, bak |-> NoCsv, new |-> NoCsv, output |-> NoCsv]
    /\ team_map = EmptyIds
    /\ id_file = EmptyIds
    /\ leagues_done = <<>>
    /\ handled = <<>>
    /\ learned = {}

Init ==
    /\ NoMatchCall
    /\ NoBatch
    /\ now = StartTime
    /\ last_request_time = 0
    /\ files = [p \in Paths |-> NoFile]
    /\ mapping_cache = EmptyMapping
    /\ mapping_file = EmptyMapping
    /\ frame = IdleFrame
    /\ ret = NoRet
    /\ lastGet = NoGet
    /\ prevGet = Summary(NoGet)
    /\ fetched = [u \in {} |-> EmptyPage]
    /\ returned = [k \in {} |-> NoTeam]
    /\ last_save = "none"
    /\ nOps = 0
    /\ nTicks = 0
    /\ n429 = 0

(* ------------------------------ actions -------------------------------- *)
\* idle periods: between min_delay and max_delay, and what is left of
\* cache_ttl after it
TickSteps == {7, cache_ttl - 7}

\* time passes between two calls
Tick(d) ==
    /\ frame.pc = "idle"
    /\ UNCHANGED <<matchVars, batchVars>>
    /\ nTicks < MaxTicks
    /\ 0 < nOps /\ nOps < MaxOps
    /\ nTicks' = nTicks + 1
    /\ now' = now + d
    /\ UNCHANGED <<last_request_time, files, mapping_cache, mapping_file,
                   frame, ret, lastGet, prevGet, fetched, returned, last_save,
                   nOps, n429>>

\* the client calls requester.get(url, use_cache)
CallGet(url, use_cache) ==
    /\ frame.pc = "idle"
    /\ UNCHANGED <<matchVars, batchVars>>
    /\ nOps < MaxOps
    /\ nOps' = nOps + 1
    /\ frame' = GetFrame("get", "direct", <<>>, <<>>, url, use_cache)
    /\ ret' = [StartRet("get", <<>>, <<>>, mapping_cache) EXCEPT !.fetches = 1]
    /\ prevGet' = Summary(lastGet)
    /\ lastGet' = StartGet(url, use_cache, files, now)
    /\ UNCHANGED <<now, last_request_time, files, mapping_cache, mapping_file,
                   fetched, returned, last_save, nTicks, n429>>

\* The resolver goes on as n says: it returns to the client, or it calls
\* requester.get and waits for the body.  rb is the call's record so far,
\* g the last get call so far and pg the one before it.
Proceed(n, rb, g, pg) ==
    /\ mapping_cache' = n.cache
    /\ mapping_file' = n.disk
    /\ last_save' = IF n.saved = "none" THEN last_save ELSE n.saved
    /\ IF n.next = "fetch"
       THEN /\ frame' = GetFrame(rb.op, n.stage, rb.team_name, rb.league_id,
                                 n.url, TRUE)
            /\ ret' = [rb EXCEPT !.fetches = @ + 1]
            /\ prevGet' = Summary(g)
            /\ lastGet' = StartGet(n.url, TRUE, files', now')
            /\ returned' = returned
       ELSE /\ frame' = IdleFrame
            /\ ret' = [rb EXCEPT !.kind = n.kind, !.val = n.val,
                                 !.saved = n.saved]
            /\ lastGet' = g
            /\ prevGet' = pg
            /\ returned' = IF n.kind = "value"
                           THEN Put(returned, <<rb.team_name, rb.league_id>>, n.val)
                           ELSE returned

\* the client calls team_mapper.search_team(team_name)
CallSearchTeam(team_name) ==
    /\ frame.pc = "idle"
    /\ UNCHANGED <<matchVars, batchVars>>
    /\ nOps < MaxOps
    /\ nOps' = nOps + 1
    /\ UNCHANGED <<now, last_request_time, files, fetched, nTicks, n429>>
    /\ Proceed(search_team_begin(team_name, mapping_cache, mapping_file),
               StartRet("search_team", team_name, <<>>, mapping_cache),
               lastGet, prevGet)

\* the client calls team_mapper.find_team_in_league(team_name, league_id)
CallFindTeamInLeague(team_name, league_id) ==
    /\ frame.pc = "idle"
    /\ UNCHANGED <<matchVars, batchVars>>
    /\ nOps < MaxOps
    /\ nOps' = nOps + 1
    /\ UNCHANGED <<now, last_request_time, files, fetched, nTicks, n429>>
    /\ Proceed(find_team_in_league_begin(team_name, league_id, mapping_cache,
                                         mapping_file),
               StartRet("find_team_in_league", team_name, league_id,
                        mapping_cache),
               lastGet, prevGet)

\* One pass through requester.get for the call in progress, up to its
\* recursive call (429) or through its return or exception and whatever the
\* calling resolver function then does with the body.
GetStep(statuses) ==
    /\ frame.pc = "get"
    /\ UNCHANGED <<matchVars, batchVars>>
    /\ \E r \in {GetOnce(frame.url, frame.use_cache, now, last_request_time,
                         files, delay, status, body) :
                     delay \in Delays, status \in statuses,
                     body \in PagesFor(frame.url)} :
        LET g == [lastGet EXCEPT !.nreq = @ + r.nreq, !.status = r.status,
                                 !.body = r.body,
                                 !.sent = IF r.nreq = 1 THEN r.sent ELSE @,
                                 !.slept = IF r.nreq = 1 THEN r.slept ELSE @,
                                 !.outcome = IF r.kind = "retry"
                                             THEN "running" ELSE r.kind]
            rb == [ret EXCEPT !.nreq = @ + r.nreq]
        IN  /\ r.kind = "retry" => n429 < Max429
            /\ (r.nreq = 1 /\ r.kind # "retry") => n429 \in {0, Max429}
            /\ n429' = IF r.kind = "retry" THEN n429 + 1 ELSE n429
            /\ now' = r.now
            /\ last_request_time' = r.lrt
            /\ files' = r.files
            /\ fetched' = IF r.kind = "ok"
                          THEN Put(fetched, frame.url, r.body) ELSE fetched
            /\ UNCHANGED <<nOps, nTicks>>
            /\ CASE r.kind = "retry" ->
                      /\ frame' = [frame EXCEPT !.attempts = @ + 1]
                      /\ ret' = rb
                      /\ lastGet' = g
                      /\ UNCHANGED <<prevGet, mapping_cache, mapping_file,
                                     returned, last_save>>
                 [] r.kind \in {"http_error", "transport_error"} ->
                      /\ frame' = IdleFrame
                      /\ ret' = [rb EXCEPT !.kind = "raise"]
                      /\ lastGet' = g
                      /\ UNCHANGED <<prevGet, mapping_cache, mapping_file,
                                     returned, last_save>>
                 [] r.kind \in {"hit", "ok"} /\ frame.stage = "direct" ->
                      /\ frame' = IdleFrame
                      /\ ret' = [rb EXCEPT !.kind = "body"]
                      /\ lastGet' = g
                      /\ UNCHANGED <<prevGet, mapping_cache, mapping_file,
                                     returned, last_save>>
                 [] r.kind \in {"hit", "ok"} /\ frame.stage = "search_page" ->
                      \E outcome \in SaveOutcomes :
                          Proceed(search_team_parse(frame.team_name, r.body,
                                      mapping_cache, mapping_file, outcome),
                                  rb, g, prevGet)
                 [] r.kind \in {"hit", "ok"} /\ frame.stage = "league_page" ->
                      \E outcome \in SaveOutcomes :
                          Proceed(find_team_in_league_parse(frame.team_name,
                                      frame.league_id, r.body, mapping_cache,
                                      mapping_file, outcome),
                                  rb, g, prevGet)

\* The requester under a client that calls get directly, against a server
\* that gives every answer.
Next ==
    \/ \E d \in TickSteps : Tick(d)
    \/ \E url \in GetURLs, use_cache \in BOOLEAN : CallGet(url, use_cache)
    \/ GetStep(Statuses)

Spec == Init /\ [][Next]_vars

\* The resolver over the requester, against a server that answers 200 or 404.
ResolverStatuses == {200, 404}
NextResolver ==
    \/ \E d \in TickSteps : Tick(d)
    \/ \E team_name \in TeamNames : CallSearchTeam(team_name)
    \/ \E team_name \in TeamNames, league_id \in Leagues :
           CallFindTeamInLeague(team_name, league_id)
    \/ GetStep(ResolverStatuses)

SpecResolver == Init /\ [][NextResolver]_vars

(* ----------------------- get_team_matches / fetch_last_matches --------- *)
\* the requester and the resolver as constructed, idle
RequesterIdle ==
    /\ now = StartTime
    /\ last_request_time = 0
    /\ files = [p \in Paths |-> NoFile]
    /\ mapping_cache = EmptyMapping
    /\ mapping_file = EmptyMapping
    /\ frame = IdleFrame
    /\ ret = NoRet
    /\ lastGet = NoGet
    /\ prevGet = Summary(NoGet)
    /\ fetched = [u \in {} |-> EmptyPage]
    /\ returned = [k \in {} |-> NoTeam]
    /\ last_save = "none"
    /\ nOps = 0
    /\ nTicks = 0
    /\ n429 = 0
requesterVars ==
    <<now, last_request_time, files, mapping_cache, mapping_file, frame, ret,
      lastGet, prevGet, fetched, returned, last_save, nOps, nTicks, n429>>

\* a page with a schedule table, or an answer with a list of matches, and the
\* number of matches the caller asks for
InitMatches ==
    /\ RequesterIdle
    /\ NoBatch
    /\ lookback \in 0..MaxLookback
    /\ recent = <<>>
    /\ mcall = "none"
    /\ \/ /\ schedule \in {Schedule(h, rows) :
                             h \in BOOLEAN, rows \in SeqsUpTo(TableRows, MaxMatches)}
          /\ api_matches = <<>>
       \/ /\ schedule = NoSchedule
          /\ api_matches \in SeqsUpTo(ApiMatches, MaxMatches)

\* get_team_matches(team_info, lookback) parses the table
GetTeamMatches ==
    /\ mcall = "none"
    /\ api_matches = <<>>
    /\ \E f \in TableOrders(schedule) :
          recent' = get_team_matches_table(schedule, lookback, f)
    /\ mcall' = "get_team_matches"
    /\ UNCHANGED <<schedule, api_matches, lookback, requesterVars, batchVars>>

\* fetch_last_matches(team_id, n) reads the answer
FetchLastMatches ==
    /\ mcall = "none"
    /\ schedule = NoSchedule
    /\ recent' = fetch_last_matches_data(api_matches, lookback)
    /\ mcall' = "fetch_last_matches"
    /\ UNCHANGED <<schedule, api_matches, lookback, requesterVars, batchVars>>

NextMatches == GetTeamMatches \/ FetchLastMatches
SpecMatches == InitMatches /\ [][NextMatches]_vars

(* ---------------------------- batch programs --------------------------- *)
\* the most fixtures in a fixtures file, and rows in a CSV file
MaxFixtures == 1
MaxRows == 2

\* the bodies of the cache files, by url
CachedBodies(fs) ==
    [u \in {u \in URLs : fs[CachePath(u)].exists} |-> fs[CachePath(u)].body]

\* process_fixture_teams(fixtures_file, lookback=lookback) has read the
\* fixtures file
InitCollector ==
    /\ prog = "collector"
    /\ bpc = "teams"
    /\ input \in SeqsUpTo({Fixture(h, a) : h, a \in BatchTeams}, MaxFixtures)
    /\ csv = [orig |-> CsvFile(input), bak |-> NoCsv, new |-> NoCsv,
              output |-> NoCsv]
    /\ team_map = EmptyIds
    /\ id_file = EmptyIds

\* update_csv() has read the CSV file; team_map is as loaded
InitUpdate ==
    /\ prog = "update"
    /\ bpc = "leagues"
    /\ input \in SeqsUpTo({Row(t, l) : t \in BatchTeams, l \in LeagueCells}, MaxRows)
    /\ csv = [orig |-> CsvFile(input), bak |-> NoCsv, new |-> NoCsv,
              output |-> NoCsv]
    /\ team_map = EmptyIds
    /\ id_file = EmptyIds

\* main(csv_path) has loaded the mappings and read the CSV file
InitLast7 ==
    /\ prog = "last7"
    /\ bpc = "rows"
    /\ input \in SeqsUpTo({Row(t, l) : t \in BatchTeams, l \in LeagueCells}, MaxRows)
    /\ csv = [orig |-> CsvFile(input), bak |-> NoCsv, new |-> NoCsv,
              output |-> NoCsv]
    /\ team_map = EmptyIds
    /\ id_file = EmptyIds

InitBatch ==
    /\ RequesterIdle
    /\ schedule = NoSchedule
    /\ api_matches = <<>>
    /\ lookback = MaxLookback
    /\ recent = <<>>
    /\ mcall = "none"
    /\ out_rows = <<>>
    /\ leagues_done = <<>>
    /\ handled = <<>>
    /\ learned = {}
    /\ (InitCollector \/ InitUpdate \/ InitLast7)

\* how the team went: its name in the input and the kind of the result
Handled(team, kind) == [team |-> team, kind |-> kind]

\* process_fixture_teams handles the next team: get_team_stats, append the
\* statistics if there are any, sleep
ProcessTeam ==
    /\ prog = "collector" /\ bpc = "teams"
    /\ Len(handled) < Len(FixtureTeams(input))
    /\ LET team_name == FixtureTeams(input)[Len(handled) + 1]
       IN  \E res \in UNION {get_team_stats(team_name, lookback, now,
                                  last_request_time, files, mapping_cache,
                                  mapping_file, d1, s1, b1, outcome, d2, s2, b2) :
                              d1 \in Delays, s1 \in BatchStatuses,
                              b1 \in PagesFor(SearchUrl(team_name)),
                              outcome \in SaveOutcomes,
                              d2 \in Delays, s2 \in BatchStatuses,
                              b2 \in MatchPages},
              pause \in TeamPauses :
             /\ now' = res.now + pause
             /\ last_request_time' = res.lrt
             /\ files' = res.files
             /\ fetched' = CachedBodies(res.files)
             /\ mapping_cache' = res.cache
             /\ mapping_file' = res.disk
             /\ last_save' = IF res.saved = "none" THEN last_save ELSE res.saved
             /\ out_rows' = IF res.stats # <<>> THEN Append(out_rows, res.stats)
                            ELSE out_rows
             /\ handled' = Append(handled, Handled(team_name, res.kind))
             /\ learned' = IF res.cache # mapping_cache
                           THEN learned \cup {SearchKey(team_name)} ELSE learned
    /\ UNCHANGED <<frame, ret, lastGet, prevGet, returned, nOps, nTicks, n429>>
    /\ UNCHANGED <<prog, bpc, input, csv, team_map, id_file, leagues_done>>
    /\ UNCHANGED matchVars

\* process_fixture_teams after the loop: None without statistics, else the
\* statistics of all teams written to the output file
CollectorFinish ==
    /\ prog = "collector" /\ bpc = "teams"
    /\ Len(handled) = Len(FixtureTeams(input))
    /\ csv' = IF out_rows = <<>> THEN csv
              ELSE [csv EXCEPT !.output = CsvFile(Concat(out_rows))]
    /\ bpc' = "done"
    /\ UNCHANGED <<prog, input, out_rows, team_map, id_file, leagues_done,
                   handled, learned>>
    /\ UNCHANGED <<requesterVars, matchVars>>

\* update_csv fetches the teams of the next league that has a code
UpdateLeague ==
    /\ prog = "update" /\ bpc = "leagues"
    /\ Len(leagues_done) < Len(LeaguesOf(input))
    /\ LET league == LeaguesOf(input)[Len(leagues_done) + 1]
           code == LeagueCode(league)
       IN  \E status \in BatchStatuses, teams_data \in CompetitionAnswers :
             LET tm == fetch_competition_teams(code, team_map, status, teams_data)
             IN  /\ team_map' = tm
                 /\ now' = IF code # "" /\ Answered(status)
                           THEN now + REQUEST_DELAY ELSE now
                 /\ learned' = learned \cup
                        {t \in DOMAIN tm : t \notin DOMAIN team_map \/ team_map[t] # tm[t]}
                 /\ leagues_done' = Append(leagues_done, league)
    /\ UNCHANGED <<prog, bpc, input, out_rows, csv, id_file, handled>>
    /\ UNCHANGED <<last_request_time, files, mapping_cache, mapping_file, frame,
                   ret, lastGet, prevGet, fetched, returned, last_save, nOps,
                   nTicks, n429>>
    /\ UNCHANGED matchVars

\* save_mappings() after the loop over the leagues
UpdateSaveMappings ==
    /\ prog = "update" /\ bpc = "leagues"
    /\ Len(leagues_done) = Len(LeaguesOf(input))
    /\ id_file' = team_map
    /\ bpc' = "rows"
    /\ UNCHANGED <<prog, input, out_rows, csv, team_map, leagues_done, handled,
                   learned>>
    /\ UNCHANGED <<requesterVars, matchVars>>

\* update_csv handles the next row
UpdateRow_skip ==
    /\ prog = "update" /\ bpc = "rows"
    /\ Len(handled) < Len(input)
    /\ LET processed == Len(handled) + 1
           row == input[processed]
           tid == lookup_team_id(row.Team, team_map)
       IN  /\ id_file' = IF processed % SaveEvery = 0 THEN team_map ELSE id_file
           /\ IF tid = 0
              THEN /\ out_rows' = out_rows
                   /\ handled' = Append(handled, Handled(row.Team, "not_found"))
                   /\ now' = now
              ELSE \E status \in BatchStatuses, data \in MatchAnswers :
                     LET matches == fetch_last_matches(tid, NSlots, status, data)
                     IN  \E statuses \in [1..Len(matches) -> BatchStatuses],
                            datas \in [1..Len(matches) -> MatchDatas] :
                           LET answered == {i \in 1..Len(matches) : Answered(statuses[i])}
                           IN  /\ out_rows' = Append(out_rows,
                                       OutRow(row, RowStats(matches, row.Team,
                                                            statuses, datas)))
                               /\ handled' = Append(handled, Handled(row.Team,
                                       IF ~Answered(status) \/ answered # 1..Len(matches)
                                       THEN "failed"
                                       ELSE IF matches = <<>> THEN "no_matches"
                                       ELSE "populated"))
                               /\ now' = now + REQUEST_DELAY *
                                       ((IF Answered(status) THEN 1 ELSE 0)
                                        + Cardinality(answered))
    /\ UNCHANGED <<prog, bpc, input, csv, team_map, leagues_done, learned>>
    /\ UNCHANGED <<last_request_time, files, mapping_cache, mapping_file, frame,
                   ret, lastGet, prevGet, fetched, returned, last_save, nOps,
                   nTicks, n429>>
    /\ UNCHANGED matchVars
UpdateRow ==
    /\ prog = "update" /\ bpc = "rows"
    /\ Len(handled) < Len(input)
    /\ LET processed == Len(handled) + 1
           row == input[processed]
           tid == lookup_team_id(row.Team, team_map)
       IN  /\ id_file' = IF processed % SaveEvery = 0 THEN team_map ELSE id_file
           /\ IF tid = 0
              THEN /\ out_rows' = Append(out_rows, OutRow(row, NARowStats))
                   /\ handled' = Append(handled, Handled(row.Team, "not_found"))
                   /\ now' = now
              ELSE \E status \in BatchStatuses, data \in MatchAnswers :
                     LET matches == fetch_last_matches(tid, NSlots, status, data)
                     IN  \E statuses \in [1..Len(matches) -> BatchStatuses],
                            datas \in [1..Len(matches) -> MatchDatas] :
                           LET answered == {i \in 1..Len(matches) : Answered(statuses[i])}
                           IN  /\ out_rows' = Append(out_rows,
                                       OutRow(row, RowStats(matches, row.Team,
                                                            statuses, datas)))
                               /\ handled' = Append(handled, Handled(row.Team,
                                       IF ~Answered(status) \/ answered # 1..Len(matches)
                                       THEN "failed"
                                       ELSE IF matches = <<>> THEN "no_matches"
                                       ELSE "populated"))
                               /\ now' = now + REQUEST_DELAY *
                                       ((IF Answered(status) THEN 1 ELSE 0)
                                        + Cardinality(answered))
    /\ UNCHANGED <<prog, bpc, input, csv, team_map, leagues_done, learned>>
    /\ UNCHANGED <<last_request_time, files, mapping_cache, mapping_file, frame,
                   ret, lastGet, prevGet, fetched, returned, last_save, nOps,
                   nTicks, n429>>
    /\ UNCHANGED matchVars

\* update_csv after the loop: the row count check, then either the table
\* goes to the ".new" file, or save_mappings() and the original is renamed
\* to the backup
UpdateFinish_nobackup ==
    /\ prog = "update" /\ bpc = "rows"
    /\ Len(handled) = Len(input)
    /\ IF Len(out_rows) # Len(input)
       THEN /\ csv' = [csv EXCEPT !.new = CsvFile(out_rows)]
            /\ id_file' = id_file
            /\ bpc' = "done"
       ELSE /\ id_file' = team_map
            /\ csv' = csv
            /\ bpc' = "write"
    /\ UNCHANGED <<prog, input, out_rows, team_map, leagues_done, handled, learned>>
    /\ UNCHANGED <<requesterVars, matchVars>>
UpdateFinish ==
    /\ prog = "update" /\ bpc = "rows"
    /\ Len(handled) = Len(input)
    /\ IF Len(out_rows) # Len(input)
       THEN /\ csv' = [csv EXCEPT !.new = CsvFile(out_rows)]
            /\ id_file' = id_file
            /\ bpc' = "done"
       ELSE /\ id_file' = team_map
            /\ csv' = [csv EXCEPT !.bak = csv.orig, !.orig = NoCsv]
            /\ bpc' = "write"
    /\ UNCHANGED <<prog, input, out_rows, team_map, leagues_done, handled, learned>>
    /\ UNCHANGED <<requesterVars, matchVars>>

\* updated.to_csv(CSV_PATH)
UpdateWrite ==
    /\ prog = "update" /\ bpc = "write"
    /\ csv' = [csv EXCEPT !.orig = CsvFile(out_rows)]
    /\ bpc' = "done"
    /\ UNCHANGED <<prog, input, out_rows, team_map, id_file, leagues_done,
                   handled, learned>>
    /\ UNCHANGED <<requesterVars, matchVars>>

\* df.apply calls stats_last7 for the next row; an exception of fetch_last7
\* leaves stats_last7, apply and main
Last7Row ==
    /\ prog = "last7" /\ bpc = "rows"
    /\ Len(handled) < Len(input)
    /\ LET row == input[Len(handled) + 1]
           team_id == get_team_id(row.Team, row.League)
       IN  IF team_id = 0
           THEN /\ out_rows' = Append(out_rows, OutRow(row, NoLast7Stats))
                /\ handled' = Append(handled, Handled(row.Team, "not_found"))
                /\ bpc' = bpc
           ELSE \E status \in BatchStatuses, data \in Last7Answers :
                  IF Answered(status)
                  THEN /\ out_rows' = Append(out_rows,
                              OutRow(row, SumLast7(row.Team, data,
                                                   Last7Stats(0, 0, 0, 0, 0))))
                       /\ handled' = Append(handled, Handled(row.Team,
                              IF data = <<>> THEN "no_matches" ELSE "populated"))
                       /\ bpc' = bpc
                  ELSE /\ out_rows' = out_rows
                       /\ handled' = Append(handled, Handled(row.Team, "failed"))
                       /\ bpc' = "aborted"
    /\ UNCHANGED <<prog, input, csv, team_map, id_file, leagues_done, learned>>
    /\ UNCHANGED <<requesterVars, matchVars>>

\* df.to_csv(csv_path) with the statistics
Last7Write ==
    /\ prog = "last7" /\ bpc = "rows"
    /\ Len(handled) = Len(input)
    /\ csv' = [csv EXCEPT !.orig = CsvFile(out_rows)]
    /\ bpc' = "done"
    /\ UNCHANGED <<prog, input, out_rows, team_map, id_file, leagues_done,
                   handled, learned>>
    /\ UNCHANGED <<requesterVars, matchVars>>

\* the process dies
Crash ==
    /\ prog # "none"
    /\ bpc \notin {"done", "aborted", "crashed"}
    /\ bpc' = "crashed"
    /\ UNCHANGED <<prog, input, out_rows, csv, team_map, id_file, leagues_done,
                   handled, learned>>
    /\ UNCHANGED <<requesterVars, matchVars>>

NextBatch ==
    \/ ProcessTeam
    \/ CollectorFinish
    \/ UpdateLeague
    \/ UpdateSaveMappings
    \/ UpdateRow
    \/ UpdateFinish
    \/ UpdateWrite
    \/ Last7Row
    \/ Last7Write
    \/ Crash
SpecBatch == InitBatch /\ [][NextBatch]_vars

TypeOK ==
    /\ now >= StartTime
    /\ last_request_time <= now
    /\ frame.pc \in {"idle", "get"}
    /\ DOMAIN mapping_file \subseteq DOMAIN mapping_cache

(* ------------------------- RateLimitedRequester ------------------------ *)
GetDone == lastGet.outcome \in {"hit", "ok", "http_error", "transport_error"}

\* two successive get(url, use_cache=True) calls, the first of which
\* succeeded and the second of which is over
SameUrlTwice ==
    /\ GetDone
    /\ lastGet.use_cache /\ prevGet.use_cache
    /\ prevGet.url = lastGet.url
    /\ prevGet.outcome \in {"hit", "ok"}

\* C1 as stated: two successive get(url, use_cache=True) calls, the first of
\* which succeeds, issue exactly one network request in total when the entry
\* is younger than cache_ttl at the second call, and the second call issues a
\* request of its own when the entry's age is at or above cache_ttl.
C1_ExactlyOneRequest ==
    SameUrlTwice =>
        IF lastGet.fresh
        THEN prevGet.nreq + lastGet.nreq = 1
        ELSE lastGet.nreq >= 1

\* C1 amended: the second call is served from the cache and issues no
\* request when the entry is younger than cache_ttl (so the two calls issue
\* exactly the requests of the first: one when the first call needed a
\* single request), and issues a request of its own when the entry's age is
\* at or above cache_ttl.
C1_SecondCallFromCache ==
    SameUrlTwice =>
        IF lastGet.fresh
        THEN /\ lastGet.outcome = "hit"
             /\ lastGet.nreq = 0
             /\ prevGet.nreq = 1 => prevGet.nreq + lastGet.nreq = 1
        ELSE lastGet.nreq >= 1

C1_Witness ==
    /\ SameUrlTwice
    /\ lastGet.fresh
    /\ lastGet.outcome = "hit"
    /\ prevGet.nreq = 1

\* the entry expired between the two calls and the second call fetched again
C1_WitnessExpired ==
    /\ SameUrlTwice
    /\ lastGet.entry.exists /\ ~lastGet.fresh
    /\ lastGet.outcome = "ok"

\* the retry cap of the claim: any number of attempts the server's burst of
\* 429 answers outlasts (5 with Max429 = 6)
RetryCap == Max429 - 1

\* C2 as stated: one get call makes at most a fixed number of attempts (the
\* retry cap) against a server that keeps answering 429, and then fails
\* instead of sending another request.
C2_RetryCapped == lastGet.nreq <= RetryCap

\* C3: a get(url, use_cache=True) call that finds a non-expired entry returns
\* the entry's body, sends no request, does not sleep, and leaves
\* last_request_time and the cache file as they were.
C3_CacheHitFrame ==
    [][(lastGet.outcome = "running" /\ lastGet.use_cache /\ lastGet.fresh
        /\ lastGet' # lastGet)
       => /\ lastGet'.outcome = "hit"
          /\ lastGet'.body = lastGet.entry.body
          /\ lastGet'.nreq = 0
          /\ ret'.nreq = 0
          /\ now' = now
          /\ last_request_time' = last_request_time
          /\ files' = files
          /\ files'[CachePath(lastGet.url)] = lastGet.entry]_vars

C3_Witness ==
    /\ lastGet.outcome = "hit"
    /\ lastGet.body = RosterPage
    /\ last_request_time < now

\* C4: every request is sent at least min_delay after the time recorded in
\* last_request_time, and one pass through get sleeps at most max_delay
\* before it sends its request.
C4_RequestSpacing ==
    [][(ret'.nreq = ret.nreq + 1)
       => /\ lastGet'.sent >= last_request_time + min_delay
          /\ lastGet'.sent = now + lastGet'.slept
          /\ lastGet'.slept >= 0
          /\ lastGet'.slept <= max_delay]_vars

\* a request that had to wait the whole max_delay
C4_Witness ==
    /\ lastGet.nreq >= 1
    /\ lastGet.slept = max_delay
    /\ lastGet.sent = last_request_time

\* the step in which get returns a body it fetched
C5_AtReturn ==
    (lastGet.outcome = "running" /\ lastGet'.outcome = "ok")
    => /\ files'[CachePath(lastGet.url)] = CacheFile(lastGet'.body, now')
       /\ last_request_time' = now'
       /\ lastGet'.sent = now'
\* entries and cache hits hold the body last fetched for their own URL
C5_Coherent ==
    /\ \A u \in URLs :
          files[CachePath(u)].exists
          => (u \in DOMAIN fetched /\ files[CachePath(u)].body = fetched[u])
    /\ lastGet.outcome = "hit"
       => (lastGet.url \in DOMAIN fetched
           /\ lastGet.body = fetched[lastGet.url])
\* C5: when get returns a body it fetched, the entry of the URL holds that
\* body with the time of the request as its timestamp and last_request_time
\* is that time; every entry holds the body last fetched for its own URL,
\* and a cache hit returns it, never the body of another URL.
C5_FetchedBodyCached == []C5_Coherent /\ [][C5_AtReturn]_vars

\* two URLs are cached with different bodies
C5_Witness ==
    /\ lastGet.outcome = "ok"
    /\ \E u \in URLs :
          /\ u # lastGet.url
          /\ files[CachePath(u)].exists
          /\ files[CachePath(u)].body # lastGet.body
          /\ files[CachePath(lastGet.url)].body = lastGet.body

\* a response that is neither 2xx nor 429
NonSuccess(status) == status # 0 /\ status # 429 /\ ~(status \in 200..299)

\* C6 as stated: when the server answers with a non-2xx status other than
\* 429, get fails with an HTTP error of that status, sends no further
\* request and leaves the cache entry of the URL as it was.
C6_NonSuccessFails ==
    (GetDone /\ NonSuccess(lastGet.status))
    => /\ lastGet.outcome = "http_error"
       /\ files[CachePath(lastGet.url)] = lastGet.entry

(* --------------------------- FBrefTeamMapper --------------------------- *)
ResolverOps == {"search_team", "find_team_in_league"}
\* a resolver call is over: it returned an identity or None, or it raised
ResolverDone == ret.op \in ResolverOps /\ ret.kind \in {"value", "none", "raise"}
ResolverReturned == ret.op \in ResolverOps /\ ret.kind \in {"value", "none"}
\* the key the call was made for
TriggerKey ==
    IF ret.op = "find_team_in_league"
    THEN LeagueKey(ret.team_name, ret.league_id)
    ELSE SearchKey(ret.team_name)

\* C7 as stated: once find_team_in_league(team, league) has returned an
\* identity, the next find_team_in_league(team, league) returns the same
\* identity without calling requester.get and without a network request.
C7_SecondResolveFromCache ==
    (ResolverDone /\ ret.op = "find_team_in_league" /\ ret.prior # NoTeam)
    => /\ ret.kind = "value"
       /\ ret.val = ret.prior
       /\ ret.fetches = 0
       /\ ret.nreq = 0

\* C8 as stated: find_team_in_league looks up the scoped key, then the bare
\* key, then the network: with the scoped key absent and the bare key
\* present it returns the identity under the bare key and fetches nothing.
C8_BareKeyBeforeNetwork ==
    (ResolverDone /\ ret.op = "find_team_in_league"
     /\ ~ret.had_scoped /\ ret.had_bare)
    => /\ ret.kind = "value"
       /\ ret.val = ret.bare
       /\ ret.fetches = 0

\* C9 as stated: a resolution that found a new identity has written it into
\* mapping_cache under the key of the call: the scoped key for
\* find_team_in_league, the bare key for search_team.
C9_CachedUnderTriggerKey ==
    (ResolverReturned /\ ret.kind = "value" /\ ret.saved # "none")
    => /\ TriggerKey \in DOMAIN mapping_cache
       /\ mapping_cache[TriggerKey] = ret.val

C10_SavedAfterMutation ==
    (mapping_cache' # mapping_cache)
    => /\ ret'.saved # "none"
       /\ last_save' = ret'.saved
       /\ ret'.saved = "ok" => mapping_file' = mapping_cache'
\* the file holds mapping_cache unless the last save failed
C10_InSync ==
    (ResolverReturned /\ last_save \in {"none", "ok"})
    => mapping_file = mapping_cache
C11_NoCandidate ==
    /\ frame.stage = "search_page"
    /\ lastGet.outcome = "running"
    /\ lastGet'.outcome \in {"hit", "ok"}
    /\ TeamResults(lastGet'.body) = <<>>
\* such a step returns None and stores nothing
C11_ReturnsNone ==
    C11_NoCandidate
    => /\ ret'.kind = "none"
       /\ ret'.val = NoTeam
       /\ frame'.pc = "idle"
       /\ mapping_cache' = mapping_cache
       /\ mapping_file' = mapping_file
\* the next call for the same name after a call that returned None
C11_SameNameAgain ==
    /\ nOps' = nOps + 1
    /\ ret.op \in ResolverOps /\ ret.kind = "none"
    /\ ret'.op = ret.op
    /\ Lower(ret'.team_name) = Lower(ret.team_name)
    /\ ret'.league_id = ret.league_id
\* it finds no entry and calls requester.get for the page again
C11_LooksUpAgain ==
    C11_SameNameAgain
    => /\ frame'.pc = "get"
       /\ ret'.fetches = 1
       /\ frame'.url = IF ret'.op = "find_team_in_league"
                       THEN LeagueUrl(ret'.league_id)
                       ELSE SearchUrl(ret'.team_name)
\* C11: when the search response holds no team link, the resolver returns
\* None without raising and leaves mapping_cache and team_mapping.json as
\* they were (no negative entry), and the next resolve of the same name
\* calls requester.get for the lookup again.
C11_NotFoundNotCached ==
    [][C11_ReturnsNone]_vars /\ [][C11_LooksUpAgain]_vars

\* search_team found nothing twice in a row, fetching the page each time
C11_Witness ==
    /\ nOps = 2
    /\ ret.op = "search_team" /\ ret.kind = "none" /\ ret.fetches = 1
    /\ prevGet.url = lastGet.url /\ prevGet.outcome = "ok"
    /\ lastGet.outcome \in {"hit", "ok"}
    /\ mapping_cache = EmptyMapping /\ mapping_file = EmptyMapping

\* the team entries of a roster page: the anchors that link to a squad
RosterEntries(page) == SelectSeq(page.clubs, LAMBDA a : a.id # 0)
\* the entry's listed name contains team_name, case-insensitively
NameMatches(a, team_name) == Contains(Lower(team_name), Lower(a.text))
\* a step in which find_team_in_league reads a roster page
C12_RosterStep ==
    /\ frame.stage = "league_page"
    /\ lastGet.outcome = "running"
    /\ lastGet'.outcome \in {"hit", "ok"}
    /\ lastGet'.body.has_table
C12_FirstEntry ==
    C12_RosterStep
    => LET entries == RosterEntries(lastGet'.body)
           hits == {i \in 1..Len(entries) :
                       NameMatches(entries[i], frame.team_name)}
       IN  hits # {}
           => /\ frame'.pc = "idle"
              /\ ret'.kind = "value"
              /\ \E i \in hits :
                    /\ ret'.val = TeamInfo(entries[i])
                    /\ \A j \in hits : i <= j
\* C12: find_team_in_league over a roster page returns the first team entry
\* in document order whose listed name contains team_name as a
\* case-insensitive substring, never a later one (the team entries are the
\* anchors of the table that link to a squad).
C12_FirstRosterMatch == [][C12_FirstEntry]_vars

\* the roster holds two entries that match and the first one was returned
C12_Witness ==
    /\ ret.op = "find_team_in_league" /\ ret.kind = "value"
    /\ ret.fetches = 1
    /\ lastGet.body.has_table
    /\ LET entries == RosterEntries(lastGet.body)
       IN  /\ Len(entries) >= 2
           /\ NameMatches(entries[1], ret.team_name)
           /\ NameMatches(entries[2], ret.team_name)
           /\ ret.val = TeamInfo(entries[1])
           /\ ret.val # TeamInfo(entries[2])

\* the candidates of a search response: the squad links of its team sections
SearchCandidates(page) == SelectSeq(page.teams, LAMBDA a : a.id # 0)
\* a step in which search_team reads the search response
C13_SearchStep ==
    /\ frame.stage = "search_page"
    /\ lastGet.outcome = "running"
    /\ lastGet'.outcome \in {"hit", "ok"}
C13_FirstResult ==
    C13_SearchStep
    => LET candidates == SearchCandidates(lastGet'.body)
       IN  /\ frame'.pc = "idle"
           /\ IF candidates # <<>>
              THEN ret'.kind = "value" /\ ret'.val = TeamInfo(candidates[1])
              ELSE ret'.kind = "none" /\ ret'.val = NoTeam
\* C13: search_team on a cache miss returns the first candidate of the
\* search response in document order, whatever the names of the candidates,
\* and returns None only when the response holds no candidate at all.
C13_FirstSearchResult == [][C13_FirstResult]_vars

\* the response held two candidates and the first one was returned, although
\* the call was made for a name the second one matches as well
C13_Witness ==
    /\ ret.op = "search_team" /\ ret.kind = "value"
    /\ ret.fetches = 1
    /\ LET candidates == SearchCandidates(lastGet.body)
       IN  /\ Len(candidates) >= 2
           /\ ret.val = TeamInfo(candidates[1])
           /\ ret.val # TeamInfo(candidates[2])
           /\ NameMatches(candidates[2], ret.team_name)

(* ------------------------------ 429 retry ------------------------------ *)
\* a step in which get receives a 429 answer
C19_Got429 ==
    /\ frame.pc = "get"
    /\ lastGet'.nreq = lastGet.nreq + 1
    /\ lastGet'.status = 429
\* it sleeps the cooldown, writes nothing and calls get again with the same
\* url and use_cache
C19_CoolsDown ==
    C19_Got429
    => /\ now' = lastGet'.sent + Cooldown
       /\ files' = files
       /\ frame'.pc = "get"
       /\ frame'.url = frame.url
       /\ frame'.use_cache = frame.use_cache
       /\ frame'.attempts = frame.attempts + 1
       /\ lastGet'.outcome = "running"
\* a step of a get call that has received a 429 answer
C19_RetryStep ==
    /\ frame.pc = "get"
    /\ frame.attempts > 0
    /\ lastGet' # lastGet
\* it sends a request for the same url no sooner than the cooldown after the
\* request the 429 answered, and a body it gets is returned and cached
C19_Retries ==
    C19_RetryStep
    => /\ lastGet'.nreq = lastGet.nreq + 1
       /\ lastGet'.url = frame.url
       /\ lastGet'.use_cache = frame.use_cache
       /\ lastGet'.sent >= lastGet.sent + Cooldown
       /\ lastGet'.outcome = "ok"
          => /\ ret'.kind = "body"
             /\ files'[CachePath(frame.url)]
                    = CacheFile(lastGet'.body, lastGet'.sent)
\* C19: after each 429 answer get sleeps the 60 s cooldown before it sends
\* the next request, retries the same url with the same use_cache, writes
\* nothing to the cache for the 429 answer, and when a retry succeeds it
\* returns the body of that retry and caches it.
C19_CooldownThenRetry == [][C19_CoolsDown]_vars /\ [][C19_Retries]_vars

\* a get call that succeeded after the whole burst of 429 answers
C19_Witness ==
    /\ lastGet.outcome = "ok"
    /\ lastGet.nreq = Max429 + 1
    /\ ret.kind = "body"
    /\ lastGet.body # EmptyPage
    /\ files[CachePath(lastGet.url)] = CacheFile(lastGet.body, lastGet.sent)
    /\ now >= StartTime + Max429 * Cooldown

(* ------------------------- recent match records ----------------------- *)
\* the dates of the upstream list the call read, and of the records it returned
UpstreamDates ==
    IF mcall = "get_team_matches"
    THEN [i \in 1..Len(schedule.rows) |-> ToDatetime(schedule.rows[i].Date)]
    ELSE [i \in 1..Len(api_matches) |-> ToDatetime(api_matches[i].utcDate)]
RecentDates ==
    IF mcall = "get_team_matches"
    THEN [i \in 1..Len(recent) |-> recent[i].date]
    ELSE [i \in 1..Len(recent) |-> ToDatetime(recent[i].utcDate)]
\* the returned records are upstream records, each taken once, and no record
\* left out is more recent than one returned
MostRecentOf(got, up) ==
    \E g \in [1..Len(got) -> 1..Len(up)] :
        /\ \A i, j \in 1..Len(got) : i # j => g[i] # g[j]
        /\ \A i \in 1..Len(got) : got[i] = up[g[i]]
        /\ \A k \in 1..Len(up) :
              (\A i \in 1..Len(got) : g[i] # k)
              => \A i \in 1..Len(got) : up[k] <= got[i]
\* C14: for every limit n and every upstream list, get_team_matches with
\* lookback = n and fetch_last_matches with n return at most n records, in
\* descending order of date, and when more than n are available upstream
\* exactly the n with the most recent dates.
C14_MostRecentN ==
    mcall # "none"
    => /\ Len(recent) <= lookback
       /\ \A i, j \in 1..Len(recent) : i < j => RecentDates[i] >= RecentDates[j]
       /\ Len(UpstreamDates) > lookback => Len(recent) = lookback
       /\ Len(UpstreamDates) <= lookback => Len(recent) = Len(UpstreamDates)
       /\ MostRecentOf(RecentDates, UpstreamDates)

\* three matches upstream, the oldest first, and the two most recent returned
C14_Witness ==
    /\ mcall = "get_team_matches"
    /\ lookback = 2
    /\ Len(schedule.rows) = 3
    /\ UpstreamDates[1] < UpstreamDates[2] /\ UpstreamDates[2] < UpstreamDates[3]
    /\ Len(recent) = 2
    /\ RecentDates = <<UpstreamDates[3], UpstreamDates[2]>>
\* the same through fetch_last_matches
C14_WitnessApi ==
    /\ mcall = "fetch_last_matches"
    /\ lookback = 2
    /\ Len(api_matches) = 3
    /\ UpstreamDates[1] < UpstreamDates[2] /\ UpstreamDates[2] < UpstreamDates[3]
    /\ recent = <<api_matches[3], api_matches[2]>>

\* the record was made from a row of the table with this date and result
FromRow(r) ==
    \E k \in 1..Len(schedule.rows) :
        /\ r.date = ToDatetime(schedule.rows[k].Date)
        /\ r.result = IF schedule.rows[k].Result = NaN THEN "nan"
                       ELSE schedule.rows[k].Result
\* C15: in every record get_team_matches returns, result "W" has points 3,
\* "D" has 1, "L" has 0 and any other result has no points value; no record
\* has a points value other than 3, 1, 0 or none.
C15_PointsOfResult ==
    (mcall = "get_team_matches" /\ schedule.has_result)
    => \A i \in 1..Len(recent) :
          /\ FromRow(recent[i])
          /\ recent[i].result = "W" => recent[i].points = 3
          /\ recent[i].result = "D" => recent[i].points = 1
          /\ recent[i].result = "L" => recent[i].points = 0
          /\ recent[i].result \notin {"W", "D", "L"} => recent[i].points = Absent
          /\ recent[i].points \in {3, 1, 0, Absent}

\* a draw and a match without a result among the records returned
C15_Witness ==
    /\ mcall = "get_team_matches" /\ schedule.has_result
    /\ Len(recent) = 2
    /\ recent[1].result = "D" /\ recent[1].points = 1
    /\ recent[2].result = "nan" /\ recent[2].points = Absent

(* ---------------------------- batch programs --------------------------- *)
\* the batch is over: the program returned
BatchDone == prog # "none" /\ bpc = "done"
\* the teams of the input, in the order the program handles them
InputTeams ==
    IF prog = "collector" THEN FixtureTeams(input)
    ELSE [i \in 1..Len(input) |-> input[i].Team]
\* one team of the batch was resolved and has statistics, another was not found
OneFoundOneNotFound ==
    /\ \E i \in 1..Len(handled) : handled[i].kind = "populated"
    /\ \E i \in 1..Len(handled) : handled[i].kind = "not_found"
\* the rows of the output file
OutputRows ==
    IF prog = "collector" THEN csv.output.rows ELSE csv.orig.rows
\* the output has an entry for every team of the input, in order
OneEntryPerTeam ==
    /\ Len(out_rows) = Len(InputTeams)
    /\ OutputRows = IF prog = "collector" THEN Concat(out_rows) ELSE out_rows

\* C16 as stated: when a batch over several teams, one of which resolves and
\* one of which is not found, is over, its output holds an entry for every
\* team of the input: a populated one for the resolved team and an empty
\* (NA-filled) one for the team not found; no team is dropped.
C16_NoTeamDropped ==
    (BatchDone /\ OneFoundOneNotFound) => OneEntryPerTeam

\* a step in which the handling of a team fails (transport error or HTTP
\* error status)
C17_TeamFails ==
    /\ Len(handled') = Len(handled) + 1
    /\ handled'[Len(handled')].kind = "failed"
\* C17 as stated: a failure while one team is handled is confined to that
\* team: the batch goes on with the next team and never aborts.
C17_FailureConfined ==
    [][C17_TeamFails => (bpc' = bpc /\ bpc' # "aborted")]_vars

\* the identities in memory and on disk of the program that runs
InMemory == IF prog = "update" THEN team_map ELSE mapping_cache
OnDisk == IF prog = "update" THEN id_file ELSE mapping_file
\* C20 as stated: when the process dies, every identity that was added in
\* memory while an already completed league or team was handled is in the
\* mapping file (stated for the runs in which no write of the file failed).
C20_NothingLearnedLost ==
    (bpc = "crashed" /\ last_save \in {"none", "ok"})
    => \A k \in learned :
          /\ k \in DOMAIN OnDisk
          /\ OnDisk[k] = InMemory[k]

(* --------------------------- update_csv files -------------------------- *)
\* the content the CSV file had when update_csv read it is at the original
\* path or at the backup path
OriginalKept ==
    \/ csv.orig = CsvFile(input)
    \/ csv.bak = CsvFile(input)
\* the original path holds something else than what was read
OriginalReplaced == csv.orig.exists /\ csv.orig.rows # input

\* C21: while update_csv runs and after it, with matching row counts, the
\* content the CSV had before the run exists at the original path or at the
\* backup path, and the original path holds the updated table only when the
\* backup holds the original content (the write never precedes the backup).
C21_BackupBeforeWrite ==
    prog = "update" =>
        /\ OriginalKept
        /\ OriginalReplaced => csv.bak = CsvFile(input)

\* update_csv is over: the updated table is at the original path and the
\* rows read are in the backup
C21_Witness ==
    /\ prog = "update" /\ bpc = "done"
    /\ input # <<>>
    /\ csv.orig = CsvFile(out_rows)
    /\ OriginalReplaced
    /\ csv.bak = CsvFile(input)


(* ------------------------- identity cache entries ---------------------- *)
\* every key of mapping_cache stays and keeps its identity in this step
C22_EntriesKept ==
    \A k \in DOMAIN mapping_cache :
        /\ k \in DOMAIN mapping_cache'
        /\ mapping_cache'[k] = mapping_cache[k]
\* a step in which the client calls search_team or find_team_in_league
ResolverCall == frame.pc = "idle" /\ nOps' = nOps + 1 /\ ret'.op \in ResolverOps
\* the key the call made in this step looks up first
CalledKey ==
    IF ret'.op = "search_team" THEN SearchKey(ret'.team_name)
    ELSE LeagueKey(ret'.team_name, ret'.league_id)
\* a call whose key is present returns the identity stored under it without
\* a fetch
C22_HitAtCall ==
    (ResolverCall /\ CalledKey \in DOMAIN mapping_cache)
    => /\ ret'.kind = "value"
       /\ ret'.val = mapping_cache[CalledKey]
       /\ ret'.fetches = 0
\* find_team_in_league returns a value after the roster page without storing
\* one: its fallback search_team found the bare key
FallbackHit ==
    /\ frame.pc = "get" /\ frame.stage = "league_page"
    /\ ret'.kind = "value"
    /\ mapping_cache' = mapping_cache
\* the fallback returns the identity stored under the bare key
C22_HitInFallback ==
    FallbackHit
    => /\ SearchKey(frame.team_name) \in DOMAIN mapping_cache
       /\ ret'.val = mapping_cache[SearchKey(frame.team_name)]

\* C22: once a key is in mapping_cache, no step of a search_team or
\* find_team_in_league call changes or removes the identity stored under
\* it, and a resolve that finds the key returns the identity stored under it.
C22_WriteOnce ==
    [][C22_EntriesKept /\ C22_HitAtCall /\ C22_HitInFallback]_vars

\* search_team('r') stored an identity; search_team('R'), whose search could
\* have been answered with another team, returned the stored one
C22_Witness ==
    /\ nOps = 2
    /\ ret.op = "search_team" /\ ret.team_name = <<"R">>
    /\ ret.kind = "value" /\ ret.fetches = 0
    /\ ret.had_bare /\ ret.val = ret.bare
    /\ mapping_cache[<<"r">>] = ret.val


\* this step stores an identity under key k
Stored(k) ==
    /\ k \in DOMAIN mapping_cache'
    /\ k \notin DOMAIN mapping_cache \/ mapping_cache'[k] # mapping_cache[k]
\* the entry of key k is after this step what it was before
Untouched(k) ==
    k \in DOMAIN mapping_cache =>
        /\ k \in DOMAIN mapping_cache'
        /\ mapping_cache'[k] = mapping_cache[k]

\* C23: the bare key and the league-scoped key of a team are entries of
\* their own: a step that stores an identity under one of them leaves the
\* entry of the other as it was.
C23_KeysIndependent ==
    [][\A t \in TeamNames, l \in Leagues :
          /\ Stored(SearchKey(t)) => Untouched(LeagueKey(t, l))
          /\ Stored(LeagueKey(t, l)) => Untouched(SearchKey(t))]_vars

\* both keys of a team are present and hold different identities: the
\* scoped key from the roster, the bare key from the search stored after it
C23_Witness ==
    /\ ResolverReturned /\ nOps = 2
    /\ ret.op = "search_team" /\ ~ret.had_bare
    /\ ret.kind = "value"
    /\ {<<"r">>, <<"r", ":", "9">>} \subseteq DOMAIN mapping_cache
    /\ mapping_cache[<<"r">>] = ret.val
    /\ mapping_cache[<<"r">>] # mapping_cache[<<"r", ":", "9">>]


(* ------------------------- get(url, use_cache=False) ------------------- *)
\* a get(url, use_cache=False) call is over
BypassDone == GetDone /\ ~lastGet.use_cache
\* the call sent a request, whatever the cache held, and a 2xx answer is in
\* the cache file of the URL, written when the request was sent
C24_Bypass ==
    BypassDone =>
        /\ lastGet.nreq >= 1
        /\ lastGet.outcome # "hit"
        /\ lastGet.status \in 200..299 =>
              /\ lastGet.outcome = "ok"
              /\ files[CachePath(lastGet.url)] = CacheFile(lastGet.body, lastGet.sent)
\* a get(url, use_cache=True) call that follows a successful
\* get(url, use_cache=False) within the TTL of what that call wrote
AfterBypass ==
    /\ GetDone /\ lastGet.use_cache
    /\ ~prevGet.use_cache /\ prevGet.url = lastGet.url
    /\ prevGet.outcome = "ok"
    /\ lastGet.fresh
\* it returns the body the bypassing call fetched, without a request
C24_ThenServed ==
    AfterBypass =>
        /\ lastGet.outcome = "hit"
        /\ lastGet.nreq = 0
        /\ lastGet.url \in DOMAIN fetched
        /\ lastGet.body = fetched[lastGet.url]

\* C24: get(url, use_cache=False) sends a request even when the cache holds
\* a fresh entry for the URL, a 2xx answer replaces the entry with the new
\* body, and a get(url, use_cache=True) that follows within the TTL returns
\* that body without a request.
C24_BypassRefreshesCache == C24_Bypass /\ C24_ThenServed

\* get(url, use_cache=False) found a fresh entry, fetched another body and
\* the cache file now holds the new one
C24_Witness ==
    /\ BypassDone
    /\ lastGet.fresh /\ lastGet.entry.exists
    /\ lastGet.outcome = "ok" /\ lastGet.status = 200
    /\ lastGet.body # lastGet.entry.body
    /\ files[CachePath(lastGet.url)].body = lastGet.body


(* ------------------------------ last_request_time ---------------------- *)
\* a step in which get sends a request
RequestSent == ret'.nreq = ret.nreq + 1
\* a step in which get sends a request and session.get returns a response
RequestAnswered == RequestSent /\ lastGet'.status # 0
\* what a step does to last_request_time
C25_BudgetStep ==
    /\ RequestAnswered => last_request_time' = lastGet'.sent
    /\ ~RequestAnswered => last_request_time' = last_request_time
    /\ last_request_time' >= last_request_time
    /\ RequestSent => lastGet'.sent >= last_request_time + min_delay
\* after a call that an error status ended, last_request_time is the time of
\* the request that failed
C25_AfterError ==
    lastGet.outcome = "http_error" => last_request_time = lastGet.sent

\* C25: last_request_time is set to the time of every request that receives
\* a response, whatever its status, and by nothing else (not by a cache hit);
\* so it never decreases, and the request after one that an error status
\* answered is sent at least min_delay after it.
C25_BudgetAfterEveryResponse == []C25_AfterError /\ [][C25_BudgetStep]_vars

\* a call ended with an error status and the request of the next call slept
\* the whole delay drawn
C25_Witness ==
    /\ prevGet.outcome = "http_error"
    /\ lastGet.nreq >= 1
    /\ lastGet.slept >= min_delay
    /\ lastGet.sent >= StartTime + min_delay
    /\ last_request_time = lastGet.sent


(* --------------------------- update_csv rows --------------------------- *)
\* the columns "Match i <field>": 7 slots of the 5 fields of STATS_FIELDS
MatchColumns == (1..NSlots) \X Fields
\* row k of the output is the row of row k of the input and has every
\* "Match i <field>" column
FullRow(k) ==
    /\ out_rows[k].Team = input[k].Team
    /\ out_rows[k].League = input[k].League
    /\ DOMAIN out_rows[k].stats = MatchColumns
\* a row for which nothing was obtained (no team id, or no match) is NA in
\* every column
NAWhereNothing(k) ==
    handled[k].kind \in {"not_found", "no_matches"}
    => \A c \in MatchColumns : out_rows[k].stats[c] = Absent

SameButCase(a, b) ==
    /\ Len(a) = Len(b)
    /\ \A i \in 1..Len(a) : a[i] = b[i] \/ {a[i], b[i]} = {"r", "R"}
\* a step in which the client calls search_team with a name that a
\* search_team call which returned an identity was made with, but for the
\* case of its letters
C27_CalledInOtherCase(t) ==
    /\ ResolverCall /\ ret'.op = "search_team"
    /\ SameButCase(t, ret'.team_name)
    /\ <<t, <<>>>> \in DOMAIN returned

\* C27: after search_team(name) returned an identity, a search_team call
\* with a name that differs from it only in the case of its letters returns
\* that identity and does not fetch.
C27_CaseInsensitiveKey ==
    [][\A t \in TeamNames :
          C27_CalledInOtherCase(t)
          => /\ ret'.kind = "value"
             /\ ret'.val = returned[<<t, <<>>>>]
             /\ ret'.fetches = 0
             /\ ret'.nreq = 0
             /\ frame'.pc = "idle"]_vars

\* search_team('R') stored the team its search was answered with;
\* search_team('r'), whose own search never gives that team, returned it
C27_Witness ==
    /\ nOps = 2
    /\ ret.op = "search_team" /\ ret.team_name = <<"r">>
    /\ <<<<"R">>, <<>>>> \in DOMAIN returned
    /\ ret.kind = "value" /\ ret.fetches = 0
    /\ ret.val = returned[<<<<"R">>, <<>>>>]
    /\ ret.val.id = 3


====
